---- MODULE Spec2Model ----
(***************************************************************************)
(* Model of rldp-http-proxy/DNSResolver: the resolve() entry point with    *)
(* its soft/hard-TTL cache, the smc_load -> smc_runGetMethod continuation  *)
(* chain of resolve_recursive, save_to_cache, and prepare_domain_name.     *)
(*                                                                         *)
(* Strings are sequences of byte codes where the code looks inside them    *)
(* (host names, the decimal number of the result stack) and sequences of   *)
(* word tokens where it only compares or searches whole words (error       *)
(* messages, resolved addresses).  Time is in whole seconds.               *)
(***************************************************************************)
EXTENDS Integers, Sequences, FiniteSets, TLC

VARIABLES
    cache,      \* cache_ : host -> CacheEntry (present = the key is in the map)
    now,        \* td::Time::now()
    calls,      \* one record per resolve() call made so far, in call order
    mailbox,    \* closures sent to the DNSResolver actor and not yet run
    liveness,   \* the sync() loop started by start_up
    name,       \* argument of a stand-alone prepare_domain_name evaluation
    chain_out,  \* its result
    codec_pc    \* "idle" | "ready" | "done" for that evaluation

vars == <<cache, now, calls, mailbox, liveness, name, chain_out, codec_pc>>

----------------------------------------------------------------------------
(* Bounds of the model *)

MaxCalls == 2
MaxLen == 5
MaxSyncCalls == 1
MaxSyncTime == 10
Instants == {0, 20, 270, 300, 310}   \* the instants at which the clock is read

----------------------------------------------------------------------------
(* Program constants *)

CACHE_TIMEOUT_HARD == 300
CACHE_TIMEOUT_SOFT == 270
MAX_DNS_HOPS == 4
SYNC_RETRY_DELAY == 5

----------------------------------------------------------------------------
(* Byte codes of the characters used *)

Dot == 46
Minus == 45
Plus == 43
Digits == 48..57

SiteTon == <<115, 105, 116, 101, 46, 116, 111, 110>>    \* "site.ton"
BagTon == <<98, 97, 103, 46, 116, 111, 110>>            \* "bag.ton"
ExampleCom == <<97, 46, 99>>                            \* "a.c", a host without ".ton"
DotTon == <<46, 116, 111, 110>>                         \* ".ton"

Hosts == {SiteTon, BagTon, ExampleCom}

----------------------------------------------------------------------------
(* Generic string helpers *)

\* std::string::find(needle) != npos, on any sequence
Find(s, needle) ==
    \E i \in 1..(Len(s) - Len(needle) + 1) :
        \A k \in 1..Len(needle) : s[i + k - 1] = needle[k]

RECURSIVE Reverse(_)
Reverse(s) == IF s = <<>> THEN <<>> ELSE Append(Reverse(Tail(s)), Head(s))

----------------------------------------------------------------------------
(* prepare_domain_name *)

\* the std::getline loop: `item` is the segment being read, `parts` the
\* non-empty segments pushed so far
RECURSIVE GetParts(_, _, _)
GetParts(rest, item, parts) ==
    IF rest = <<>>
    THEN IF item # <<>> THEN Append(parts, item) ELSE parts
    ELSE IF Head(rest) = Dot
         THEN GetParts(Tail(rest), <<>>,
                       IF item # <<>> THEN Append(parts, item) ELSE parts)
         ELSE GetParts(Tail(rest), Append(item, Head(rest)), parts)

\* the loop that joins the reversed parts with a null separator
RECURSIVE JoinParts(_, _, _)
JoinParts(parts, i, result) ==
    IF i > Len(parts)
    THEN result
    ELSE JoinParts(parts, i + 1,
                   (IF i > 1 THEN Append(result, 0) ELSE result) \o parts[i])

\* variant: std::reverse forgotten
prepare_domain_name_NoReverse(domain) ==
    LET parts == GetParts(domain, <<>>, <<>>)
    IN  Append(JoinParts(parts, 1, <<>>), 0)

prepare_domain_name(domain) ==
    LET parts == Reverse(GetParts(domain, <<>>, <<>>))
    IN  Append(JoinParts(parts, 1, <<>>), 0)

----------------------------------------------------------------------------
(* Values *)

NoEntry == [present |-> FALSE, address_ |-> <<>>, created_at_ |-> 0]

NoOutcome == [kind |-> "none", val |-> <<>>]
Ok(v) == [kind |-> "ok", val |-> v]
Err(e) == [kind |-> "err", val |-> e]

\* error texts raised by the resolver itself
DepthLimitMsg == <<"DNS resolution depth limit exceeded">>
NoEntriesMsg == <<"no DNS entries found">>
MethodFailedMsg == <<"DNS resolve method failed">>
InvalidResultMsg == <<"Invalid DNS resolve result">>
InvalidBitsMsg == <<"Invalid bits entry in DNS result">>
CannotParseMsg == <<"Cannot parse resolved bits">>
NotMod8Msg == <<"resolved bits is not mod 8">>
NotImplementedMsg == <<"Complex cell parsing not implemented in this simplified version">>

PlaceholderAddr == <<"storage_bag_placeholder", ".bag">>

----------------------------------------------------------------------------
(* Answers of the tonlib client (the external collaborator) *)

LoadOk == [is_error |-> FALSE, error |-> <<>>]
LoadError(msg) == [is_error |-> TRUE, error |-> msg]

NotInitialized == <<"not", "initialized">>
AccountNotFound == <<"account", "not", "found">>
TimeoutMsg == <<"LITE_SERVER_NETWORK", "timeout">>

LoadResults ==
    { LoadOk,
      LoadError(<<"contract", "is", "not", "initialized">>),
      LoadError(<<"account", "not", "found">>),
      LoadError(TimeoutMsg) }

\* the decoded content of a result cell: a ResolvedRecord
NoRecord == [kind |-> "none", ref |-> "", remaining |-> <<>>, raw_id |-> <<>>]
NextResolver(r, rem) == [kind |-> "NextResolver", ref |-> r, remaining |-> rem, raw_id |-> <<>>]
AdnlAddress(x) == [kind |-> "AdnlAddress", ref |-> "", remaining |-> <<>>, raw_id |-> x]
StorageAddress(y) == [kind |-> "StorageAddress", ref |-> "", remaining |-> <<>>, raw_id |-> y]
Unsupported == [kind |-> "Unsupported", ref |-> "", remaining |-> <<>>, raw_id |-> <<>>]

RawX == <<18, 52>>
RawY1 == <<171, 205>>

Records ==
    { NextResolver("R1", <<116, 111, 110, 0>>),
      AdnlAddress(RawX), StorageAddress(RawY1), Unsupported }

\* tvm_StackEntry variants
Number(digits) == [type |-> "number", number_ |-> digits, record |-> NoRecord]
Cell(rec) == [type |-> "cell", number_ |-> <<>>, record |-> rec]
Null == [type |-> "null", number_ |-> <<>>, record |-> NoRecord]

RunError(msg) == [is_error |-> TRUE, error |-> msg, exit_code_ |-> 0, stack_ |-> <<>>]
RunOk(code, stack) == [is_error |-> FALSE, error |-> <<>>, exit_code_ |-> code, stack_ |-> stack]

Str32 == <<51, 50>>     \* "32"
Str12 == <<49, 50>>     \* "12"
StrNeg8 == <<45, 56>>   \* "-8"
StrX == <<120>>         \* "x"

RunResults ==
    { RunError(TimeoutMsg),
      RunOk(1, <<>>),
      RunOk(0, <<Number(Str32)>>),
      RunOk(0, <<Null, Cell(Unsupported)>>),
      RunOk(0, <<Number(StrX), Cell(Unsupported)>>),
      RunOk(0, <<Number(Str12), Cell(Unsupported)>>),
      RunOk(0, <<Number(StrNeg8), Null>>) }
    \cup { RunOk(0, <<Number(Str32), Cell(r)>>) : r \in Records }

----------------------------------------------------------------------------
(* std::stoll on the bytes of a decimal string: optional sign, then the
   longest run of digits; no digit at all is the invalid_argument exception.
   (Leading white space and 64-bit overflow do not occur in RunResults.) *)

RECURSIVE DigitsValue(_, _)
DigitsValue(s, acc) ==
    IF s = <<>> \/ Head(s) \notin Digits
    THEN acc
    ELSE DigitsValue(Tail(s), acc * 10 + (Head(s) - 48))

stoll(s) ==
    LET signed == s # <<>> /\ Head(s) \in {Minus, Plus}
        body == IF signed THEN Tail(s) ELSE s
        mag == DigitsValue(body, 0)
    IN  [ok |-> body # <<>> /\ Head(body) \in Digits,
         value |-> IF signed /\ Head(s) = Minus THEN 0 - mag ELSE mag]

----------------------------------------------------------------------------
(* td::Promise<std::string>: set_result / set_error deliver to the caller
   once and leave the promise empty; on an empty promise they do nothing. *)

SetResult(c, v) ==
    IF c.promise = "empty" THEN c
    ELSE [c EXCEPT !.promise = "empty", !.outcome = Ok(v)]

\* variant: set_error delivers whatever was delivered before
SetError_Again(c, e) == [c EXCEPT !.promise = "empty", !.outcome = Err(e)]

SetError(c, e) ==
    IF c.promise = "empty" THEN c
    ELSE [c EXCEPT !.promise = "empty", !.outcome = Err(e)]

\* a resolution ends with an error: promise.set_error(e); return
Fail(c, e) == [SetError(c, e) EXCEPT !.stage = "done", !.res = Err(e)]

----------------------------------------------------------------------------
(* resolve and the continuation chain of resolve_recursive, as functions on
   the record of one resolve() call.

   Program state of a call: full_host, domain_chain, depth (the captures of
   the lambdas), promise ("armed" | "empty"), stage
     "idle"  no resolution was started        "load"  smc_load outstanding
     "fwd"   forward_runGetMethod in mailbox  "run"   smc_runGetMethod outstanding
     "done"  the resolution has ended
   and outcome, what the caller of resolve() was given.
   History kept for stating properties: seen/age (the cache entry and its age
   when resolve() ran; age -1 = no entry), res (how the resolution ended),
   loads and replies (the smc_load and smc_runGetMethod answers received),
   rpcs (requests sent to the tonlib client), saved (this call's
   save_to_cache has run). *)

\* variant: a hop sends smc_runGetMethod directly, without smc_load
resolve_recursive_Direct(c) ==
    IF c.depth >= MAX_DNS_HOPS
    THEN Fail(c, DepthLimitMsg)
    ELSE [c EXCEPT !.stage = "run", !.rpcs = @ + 1]

resolve_recursive(c) ==
    IF c.depth >= MAX_DNS_HOPS
    THEN Fail(c, DepthLimitMsg)
    ELSE [c EXCEPT !.stage = "load", !.rpcs = @ + 1]

NewCall(host, entry, t) ==
    [full_host |-> host, domain_chain |-> <<>>, depth |-> 0,
     promise |-> "armed", stage |-> "idle", outcome |-> NoOutcome,
     seen |-> entry, age |-> IF entry.present THEN t - entry.created_at_ ELSE -1,
     res |-> NoOutcome, loads |-> <<>>, replies |-> <<>>, rpcs |-> 0,
     saved |-> FALSE]

\* variant: the early return of the soft window is missing
resolve_NoSoftReturn(host, entry, t) ==
    LET c0 == NewCall(host, entry, t)
        valid == entry.present /\ t < entry.created_at_ + CACHE_TIMEOUT_HARD
        c1 == IF valid THEN SetResult(c0, entry.address_) ELSE c0
    IN  resolve_recursive([c1 EXCEPT !.domain_chain = prepare_domain_name(host)])

\* variant: every valid entry returns early, the stale window is not refreshed
resolve_NoRefresh(host, entry, t) ==
    LET c0 == NewCall(host, entry, t)
        valid == entry.present /\ t < entry.created_at_ + CACHE_TIMEOUT_HARD
        c1 == IF valid THEN SetResult(c0, entry.address_) ELSE c0
    IN  IF valid
        THEN c1
        ELSE resolve_recursive([c1 EXCEPT !.domain_chain = prepare_domain_name(host)])

\* variant: the hard limit compared with <= instead of <
resolve_HardInclusive(host, entry, t) ==
    LET c0 == NewCall(host, entry, t)
        valid == entry.present /\ t <= entry.created_at_ + CACHE_TIMEOUT_HARD
        c1 == IF valid THEN SetResult(c0, entry.address_) ELSE c0
    IN  IF valid /\ t < entry.created_at_ + CACHE_TIMEOUT_SOFT
        THEN c1
        ELSE resolve_recursive([c1 EXCEPT !.domain_chain = prepare_domain_name(host)])

\* variant: in the stale window the promise is left to the refresh
resolve_LatePromise(host, entry, t) ==
    LET c0 == NewCall(host, entry, t)
        valid == entry.present /\ t < entry.created_at_ + CACHE_TIMEOUT_HARD
    IN  IF valid /\ t < entry.created_at_ + CACHE_TIMEOUT_SOFT
        THEN SetResult(c0, entry.address_)
        ELSE resolve_recursive([c0 EXCEPT !.domain_chain = prepare_domain_name(host)])

resolve(host, entry, t) ==
    LET c0 == NewCall(host, entry, t)
        valid == entry.present /\ t < entry.created_at_ + CACHE_TIMEOUT_HARD
        c1 == IF valid THEN SetResult(c0, entry.address_) ELSE c0
    IN  IF valid /\ t < entry.created_at_ + CACHE_TIMEOUT_SOFT
        THEN c1
        ELSE resolve_recursive([c1 EXCEPT !.domain_chain = prepare_domain_name(host)])

\* variant: every smc_load error is reported under one text of the resolver
load_promise_Generic(c0, load_result) ==
    LET c == [c0 EXCEPT !.loads = Append(@, load_result)]
    IN  IF load_result.is_error
        THEN [call |-> IF Find(load_result.error, NotInitialized)
                          \/ Find(load_result.error, AccountNotFound)
                       THEN Fail(c, NoEntriesMsg)
                       ELSE Fail(c, <<"smc_load failed">>),
              forward |-> FALSE]
        ELSE [call |-> [c EXCEPT !.stage = "fwd"], forward |-> TRUE]

\* answer to smc_load; forward = forward_runGetMethod was sent to SelfId
load_promise(c0, load_result) ==
    LET c == [c0 EXCEPT !.loads = Append(@, load_result)]
    IN  IF load_result.is_error
        THEN [call |-> IF Find(load_result.error, NotInitialized)
                          \/ Find(load_result.error, AccountNotFound)
                       THEN Fail(c, NoEntriesMsg)
                       ELSE Fail(c, load_result.error),
              forward |-> FALSE]
        ELSE [call |-> [c EXCEPT !.stage = "fwd"], forward |-> TRUE]

\* variant: the request is dropped instead of being sent on
forward_runGetMethod_Drop(c) == c

forward_runGetMethod(c) == [c EXCEPT !.stage = "run", !.rpcs = @ + 1]

\* variant: save_to_cache is sent before the host is examined
run_promise_SaveOnError(c0, R) ==
    LET c == [c0 EXCEPT !.replies = Append(@, R)]
        no(e) == [call |-> Fail(c, e), save |-> FALSE, address |-> <<>>]
    IN  IF R.is_error THEN no(R.error)
        ELSE IF R.exit_code_ # 0 THEN no(MethodFailedMsg)
        ELSE IF Len(R.stack_) < 2 THEN no(InvalidResultMsg)
        ELSE IF R.stack_[1].type # "number" THEN no(InvalidBitsMsg)
        ELSE IF ~stoll(R.stack_[1].number_).ok THEN no(CannotParseMsg)
        ELSE IF stoll(R.stack_[1].number_).value % 8 # 0 THEN no(NotMod8Msg)
        ELSE IF R.stack_[2].type # "cell" THEN no(NoEntriesMsg)
        ELSE IF Find(c.full_host, DotTon)
             THEN [call |-> [SetResult(c, PlaceholderAddr) EXCEPT
                                !.stage = "done", !.res = Ok(PlaceholderAddr)],
                   save |-> TRUE, address |-> PlaceholderAddr]
             ELSE [call |-> Fail(c, NotImplementedMsg),
                   save |-> TRUE, address |-> PlaceholderAddr]

\* variant: the result lacks its ".bag" suffix
run_promise_BareResult(c0, R) ==
    LET c == [c0 EXCEPT !.replies = Append(@, R)]
        no(e) == [call |-> Fail(c, e), save |-> FALSE, address |-> <<>>]
    IN  IF R.is_error THEN no(R.error)
        ELSE IF R.exit_code_ # 0 THEN no(MethodFailedMsg)
        ELSE IF Len(R.stack_) < 2 THEN no(InvalidResultMsg)
        ELSE IF R.stack_[1].type # "number" THEN no(InvalidBitsMsg)
        ELSE IF ~stoll(R.stack_[1].number_).ok THEN no(CannotParseMsg)
        ELSE IF stoll(R.stack_[1].number_).value % 8 # 0 THEN no(NotMod8Msg)
        ELSE IF R.stack_[2].type # "cell" THEN no(NoEntriesMsg)
        ELSE IF Find(c.full_host, DotTon)
             THEN [call |-> [SetResult(c, <<"storage_bag_placeholder">>) EXCEPT
                                !.stage = "done", !.res = Ok(<<"storage_bag_placeholder">>)],
                   save |-> TRUE, address |-> <<"storage_bag_placeholder">>]
             ELSE no(NotImplementedMsg)

\* variant: the data entry is not checked to be a cell
run_promise_NoCellCheck(c0, R) ==
    LET c == [c0 EXCEPT !.replies = Append(@, R)]
        no(e) == [call |-> Fail(c, e), save |-> FALSE, address |-> <<>>]
    IN  IF R.is_error THEN no(R.error)
        ELSE IF R.exit_code_ # 0 THEN no(MethodFailedMsg)
        ELSE IF Len(R.stack_) < 2 THEN no(InvalidResultMsg)
        ELSE IF R.stack_[1].type # "number" THEN no(InvalidBitsMsg)
        ELSE IF ~stoll(R.stack_[1].number_).ok THEN no(CannotParseMsg)
        ELSE IF stoll(R.stack_[1].number_).value % 8 # 0 THEN no(NotMod8Msg)
        ELSE IF Find(c.full_host, DotTon)
             THEN [call |-> [SetResult(c, PlaceholderAddr) EXCEPT
                                !.stage = "done", !.res = Ok(PlaceholderAddr)],
                   save |-> TRUE, address |-> PlaceholderAddr]
             ELSE no(NotImplementedMsg)

\* answer to smc_runGetMethod; save = save_to_cache(full_host, address) was
\* sent to SelfId before the promise was set
\* variant: every cell is a success, whatever the host
run_promise_NoHostCheck(c0, R) ==
    LET c == [c0 EXCEPT !.replies = Append(@, R)]
        no(e) == [call |-> Fail(c, e), save |-> FALSE, address |-> <<>>]
    IN  IF R.is_error THEN no(R.error)
        ELSE IF R.exit_code_ # 0 THEN no(MethodFailedMsg)
        ELSE IF Len(R.stack_) < 2 THEN no(InvalidResultMsg)
        ELSE IF R.stack_[1].type # "number" THEN no(InvalidBitsMsg)
        ELSE IF ~stoll(R.stack_[1].number_).ok THEN no(CannotParseMsg)
        ELSE IF stoll(R.stack_[1].number_).value % 8 # 0 THEN no(NotMod8Msg)
        ELSE IF R.stack_[2].type # "cell" THEN no(NoEntriesMsg)
        ELSE [call |-> [SetResult(c, PlaceholderAddr) EXCEPT
                           !.stage = "done", !.res = Ok(PlaceholderAddr)],
              save |-> TRUE, address |-> PlaceholderAddr]

run_promise(c0, R) ==
    LET c == [c0 EXCEPT !.replies = Append(@, R)]
        no(e) == [call |-> Fail(c, e), save |-> FALSE, address |-> <<>>]
    IN  IF R.is_error THEN no(R.error)
        ELSE IF R.exit_code_ # 0 THEN no(MethodFailedMsg)
        ELSE IF Len(R.stack_) < 2 THEN no(InvalidResultMsg)
        ELSE IF R.stack_[1].type # "number" THEN no(InvalidBitsMsg)
        ELSE IF ~stoll(R.stack_[1].number_).ok THEN no(CannotParseMsg)
        ELSE IF stoll(R.stack_[1].number_).value % 8 # 0 THEN no(NotMod8Msg)
        ELSE IF R.stack_[2].type # "cell" THEN no(NoEntriesMsg)
        ELSE IF Find(c.full_host, DotTon)
             THEN [call |-> [SetResult(c, PlaceholderAddr) EXCEPT
                                !.stage = "done", !.res = Ok(PlaceholderAddr)],
                   save |-> TRUE, address |-> PlaceholderAddr]
             ELSE no(NotImplementedMsg)

\* variant: an entry that exists is kept, the first writer wins
save_to_cache_KeepFirst(host, address) ==
    IF cache[host].present
    THEN cache
    ELSE [cache EXCEPT ![host] =
             [present |-> TRUE, address_ |-> address, created_at_ |-> now]]

save_to_cache(host, address) ==
    [cache EXCEPT ![host] =
        [present |-> TRUE, address_ |-> address, created_at_ |-> now]]

----------------------------------------------------------------------------
(* start_up and sync.  state: "requested" (a sync request is with the tonlib
   client), "waiting" (delay_action armed, due at fire_at), "queued" (the
   sync closure is in the mailbox), "synced" (the last request succeeded).
   History: syncs (requests sent), last (the last answer), failed_at (when
   the last error arrived). *)

Constructed ==
    [state |-> "constructed", fire_at |-> 0, syncs |-> 0, last |-> "none",
     failed_at |-> 0]

sync(l) == [l EXCEPT !.state = "requested", !.syncs = @ + 1]

start_up(l) == sync(l)

\* variant: an error is only logged, nothing is scheduled
sync_promise_NoRetry(l, is_error, t) ==
    IF is_error
    THEN [l EXCEPT !.state = "synced", !.last = "error", !.failed_at = t]
    ELSE [l EXCEPT !.state = "synced", !.last = "ok"]

\* the lambda P given to the sync request, answered at time t
sync_promise(l, is_error, t) ==
    IF is_error
    THEN [l EXCEPT !.state = "waiting", !.fire_at = t + SYNC_RETRY_DELAY,
                   !.last = "error", !.failed_at = t]
    ELSE [l EXCEPT !.state = "synced", !.last = "ok"]

----------------------------------------------------------------------------
(* Messages in the actor's mailbox *)

SyncMsg == [kind |-> "sync", call |-> 0, host |-> <<>>, address |-> <<>>]

ForwardMsg(i) ==
    [kind |-> "forward_runGetMethod", call |-> i, host |-> <<>>, address |-> <<>>]
SaveMsg(i, host, address) ==
    [kind |-> "save_to_cache", call |-> i, host |-> host, address |-> address]

----------------------------------------------------------------------------
(* The state machine *)

Init ==
    /\ cache = [h \in Hosts |-> NoEntry]
    /\ now = 0
    /\ calls = <<>>
    /\ mailbox = <<>>
    /\ liveness = start_up(Constructed)
    /\ name = <<>>
    /\ chain_out = <<>>
    /\ codec_pc = "idle"

codec == <<name, chain_out, codec_pc>>

\* a caller invokes resolve(host, promise)
CallResolve(host) ==
    /\ Len(calls) < MaxCalls
    /\ calls' = Append(calls, resolve(host, cache[host], now))
    /\ UNCHANGED <<cache, now, mailbox, codec, liveness>>

\* the tonlib client answers smc_load of call i.  send_closure to SelfId runs
\* the closure at once when the actor is free and its mailbox empty, and
\* queues it otherwise.
LoadResponse(i, load_result, at_once) ==
    /\ calls[i].stage = "load"
    /\ at_once => mailbox = <<>>
    /\ LET eff == load_promise(calls[i], load_result)
       IN  IF eff.forward /\ at_once
           THEN /\ calls' = [calls EXCEPT ![i] = forward_runGetMethod(eff.call)]
                /\ UNCHANGED mailbox
           ELSE /\ calls' = [calls EXCEPT ![i] = eff.call]
                /\ mailbox' = IF eff.forward THEN Append(mailbox, ForwardMsg(i))
                              ELSE mailbox
    /\ UNCHANGED <<cache, now, codec, liveness>>

\* the actor runs a queued forward_runGetMethod
DeliverForward ==
    /\ mailbox # <<>>
    /\ Head(mailbox).kind = "forward_runGetMethod"
    /\ calls' = [calls EXCEPT ![Head(mailbox).call] = forward_runGetMethod(@)]
    /\ mailbox' = Tail(mailbox)
    /\ UNCHANGED <<cache, now, codec, liveness>>

\* the tonlib client answers smc_runGetMethod of call i
RunResponse(i, R, at_once) ==
    /\ calls[i].stage = "run"
    /\ at_once => mailbox = <<>>
    /\ LET eff == run_promise(calls[i], R)
       IN  IF eff.save /\ at_once
           THEN /\ cache' = save_to_cache(eff.call.full_host, eff.address)
                /\ calls' = [calls EXCEPT ![i] = [eff.call EXCEPT !.saved = TRUE]]
                /\ UNCHANGED mailbox
           ELSE /\ calls' = [calls EXCEPT ![i] = eff.call]
                /\ mailbox' = IF eff.save
                              THEN Append(mailbox, SaveMsg(i, eff.call.full_host, eff.address))
                              ELSE mailbox
                /\ UNCHANGED cache
    /\ UNCHANGED <<now, codec, liveness>>

\* the actor runs a queued save_to_cache
DeliverSave ==
    /\ mailbox # <<>>
    /\ Head(mailbox).kind = "save_to_cache"
    /\ cache' = save_to_cache(Head(mailbox).host, Head(mailbox).address)
    /\ calls' = [calls EXCEPT ![Head(mailbox).call].saved = TRUE]
    /\ mailbox' = Tail(mailbox)
    /\ UNCHANGED <<now, codec, liveness>>

\* time passes, to a later instant
Tick(t) ==
    /\ t > now
    /\ now' = t
    /\ UNCHANGED <<cache, calls, mailbox, codec, liveness>>

Next ==
    \/ \E host \in Hosts : CallResolve(host)
    \/ \E i \in 1..Len(calls), lr \in LoadResults, at_once \in BOOLEAN :
          LoadResponse(i, lr, at_once)
    \/ DeliverForward
    \/ \E i \in 1..Len(calls), R \in RunResults, at_once \in BOOLEAN :
          RunResponse(i, R, at_once)
    \/ DeliverSave
    \/ \E t \in Instants : Tick(t)

Spec == Init /\ [][Next]_vars

\* the tonlib client answers every request, and the actor runs every closure
\* in its mailbox
LiveSpec ==
    /\ Init
    /\ [][Next]_vars
    /\ \A i \in 1..MaxCalls :
          /\ WF_vars(\E lr \in LoadResults, at_once \in BOOLEAN :
                        i <= Len(calls) /\ LoadResponse(i, lr, at_once))
          /\ WF_vars(\E R \in RunResults, at_once \in BOOLEAN :
                        i <= Len(calls) /\ RunResponse(i, R, at_once))
    /\ WF_vars(DeliverForward)
    /\ WF_vars(DeliverSave)

----------------------------------------------------------------------------
(* The sync loop next to the resolutions of a few calls for one host, on a
   finer clock *)

SyncSteps == {1, 5}

\* the tonlib client answers the sync request
SyncResponse(is_error) ==
    /\ liveness.state = "requested"
    /\ is_error => now + SYNC_RETRY_DELAY <= MaxSyncTime
    /\ liveness' = sync_promise(liveness, is_error, now)
    /\ UNCHANGED <<cache, now, calls, mailbox, codec>>

\* the delayed action is due: send_closure(SelfId, &DNSResolver::sync)
SyncTimer(at_once) ==
    /\ liveness.state = "waiting"
    /\ now >= liveness.fire_at
    /\ at_once => mailbox = <<>>
    /\ IF at_once
       THEN /\ liveness' = sync(liveness)
            /\ UNCHANGED mailbox
       ELSE /\ liveness' = [liveness EXCEPT !.state = "queued"]
            /\ mailbox' = Append(mailbox, SyncMsg)
    /\ UNCHANGED <<cache, now, calls, codec>>

\* the actor runs a queued sync
DeliverSync ==
    /\ mailbox # <<>>
    /\ Head(mailbox).kind = "sync"
    /\ liveness' = sync(liveness)
    /\ mailbox' = Tail(mailbox)
    /\ UNCHANGED <<cache, now, calls, codec>>

SyncTick(d) ==
    /\ now + d <= MaxSyncTime
    /\ now' = now + d
    /\ UNCHANGED <<cache, calls, mailbox, codec, liveness>>

SyncCallResolve ==
    /\ Len(calls) < MaxSyncCalls
    /\ calls' = Append(calls, resolve(SiteTon, cache[SiteTon], now))
    /\ UNCHANGED <<cache, now, mailbox, codec, liveness>>

SyncNext ==
    \/ \E is_error \in BOOLEAN : SyncResponse(is_error)
    \/ \E at_once \in BOOLEAN : SyncTimer(at_once)
    \/ DeliverSync
    \/ \E d \in SyncSteps : SyncTick(d)
    \/ SyncCallResolve
    \/ \E i \in 1..Len(calls), lr \in LoadResults, at_once \in BOOLEAN :
          LoadResponse(i, lr, at_once)
    \/ DeliverForward
    \/ \E i \in 1..Len(calls), R \in RunResults, at_once \in BOOLEAN :
          RunResponse(i, R, at_once)
    \/ DeliverSave

\* timers fire, time passes and the actor runs what is in its mailbox
SyncSpec ==
    /\ Init
    /\ [][SyncNext]_vars
    /\ WF_vars(\E at_once \in BOOLEAN : SyncTimer(at_once))
    /\ WF_vars(DeliverSync)
    /\ WF_vars(DeliverForward)
    /\ WF_vars(DeliverSave)
    /\ WF_vars(\E d \in SyncSteps : SyncTick(d))

----------------------------------------------------------------------------
(* Stand-alone evaluation of prepare_domain_name on every name of at most
   MaxLen bytes over a small alphabet *)

Alphabet == {97, 98, 99, Dot}      \* 'a', 'b', 'c', '.'
Names == UNION { [1..k -> Alphabet] : k \in 0..MaxLen }

CodecInit ==
    /\ cache = [h \in Hosts |-> NoEntry]
    /\ now = 0
    /\ calls = <<>>
    /\ mailbox = <<>>
    /\ liveness = start_up(Constructed)
    /\ name \in Names
    /\ chain_out = <<>>
    /\ codec_pc = "ready"

PrepareChain ==
    /\ codec_pc = "ready"
    /\ chain_out' = prepare_domain_name(name)
    /\ codec_pc' = "done"
    /\ UNCHANGED <<cache, now, calls, mailbox, liveness, name>>

CodecSpec == CodecInit /\ [][PrepareChain]_vars

----------------------------------------------------------------------------
(* Vocabulary of the properties *)

Last(s) == s[Len(s)]

\* the cache window a call fell into, from the entry's age when resolve() ran
Miss(c) == c.age = -1
Fresh(c) == c.age >= 0 /\ c.age < 270
Stale(c) == c.age >= 270 /\ c.age < 300
Expired(c) == c.age >= 300

InFlight(c) == c.stage \in {"load", "fwd", "run"}

\* a save_to_cache closure of call i is waiting in the mailbox
SaveQueued(mb, i) ==
    \E k \in 1..Len(mb) : mb[k].kind = "save_to_cache" /\ mb[k].call = i

\* the answer of a hop is well formed up to the record slot
WellFormed(R) ==
    /\ ~R.is_error
    /\ R.exit_code_ = 0
    /\ Len(R.stack_) >= 2
    /\ R.stack_[1].type = "number"
    /\ R.stack_[1].number_ \in {Str32, StrNeg8}

ZeroRecords(R) == WellFormed(R) /\ R.stack_[2].type # "cell"
HasRecord(R, kind) ==
    WellFormed(R) /\ R.stack_[2].type = "cell" /\ R.stack_[2].record.kind = kind

----------------------------------------------------------------------------
(* C1: a resolve(h) that finds an entry younger than SOFT_TTL (270 s) is
   fulfilled at once with the cached address, sends no request to the tonlib
   client (no smc_load, no smc_runGetMethod) and starts no resolution. *)
C1_FreshHitNoRpc ==
    \A i \in DOMAIN calls :
        Fresh(calls[i]) =>
            /\ calls[i].outcome = Ok(calls[i].seen.address_)
            /\ calls[i].rpcs = 0
            /\ calls[i].stage = "idle"
            /\ calls[i].res = NoOutcome
            /\ ~SaveQueued(mailbox, i)

\* a call served from an entry 250 s old, without any request
C1_Witness ==
    \E i \in DOMAIN calls :
        /\ calls[i].age = 250
        /\ calls[i].outcome = Ok(PlaceholderAddr)
        /\ calls[i].rpcs = 0

----------------------------------------------------------------------------
\* a call made in the stale window: what holds of it in every state, and of
\* the step that runs its save_to_cache
C2_StaleState ==
    \A i \in DOMAIN calls :
        Stale(calls[i]) =>
            /\ calls[i].outcome = Ok(calls[i].seen.address_)
            /\ calls[i].stage # "idle"
            /\ calls[i].rpcs \in {1, 2}
            /\ Len(calls[i].replies) <= 1
            /\ calls[i].res.kind = "ok" => (calls[i].saved \/ SaveQueued(mailbox, i))

C2_StaleStep ==
    \A i \in DOMAIN calls :
        (Stale(calls[i]) /\ ~calls[i].saved /\ calls'[i].saved) =>
            /\ calls'[i].res.kind = "ok"
            /\ cache'[calls[i].full_host].present
            /\ cache'[calls[i].full_host].address_ = calls'[i].res.val
            /\ cache'[calls[i].full_host].created_at_ > calls[i].seen.created_at_

(* C2: a resolve(h) that finds an entry with SOFT_TTL <= age < HARD_TTL is
   fulfilled at once with the cached address and keeps that outcome whatever
   the background resolution does; it starts exactly one resolution sequence
   (one smc_load, at most one smc_runGetMethod), and when that sequence
   succeeds its save_to_cache overwrites the entry of h with a created_at
   newer than the one the call saw. *)
C2_StaleWhileRevalidate == [](C2_StaleState) /\ [][C2_StaleStep]_vars

\* a stale call whose background resolution succeeded and rewrote the entry
C2_Witness ==
    \E i \in DOMAIN calls :
        /\ calls[i].age = 270
        /\ calls[i].saved
        /\ calls[i].outcome = Ok(calls[i].seen.address_)
        /\ cache[calls[i].full_host].created_at_ > calls[i].seen.created_at_

----------------------------------------------------------------------------
(* C3: a resolve(h) that finds an entry with age >= HARD_TTL (300 s included)
   is not answered from the cache: its promise is pending while the fresh
   resolution is in flight and is settled with that resolution's result. *)
C3_HardExpiryBlocks ==
    \A i \in DOMAIN calls :
        Expired(calls[i]) =>
            /\ calls[i].stage # "idle"
            /\ InFlight(calls[i]) => calls[i].outcome = NoOutcome
            /\ calls[i].stage = "done" =>
                  calls[i].res # NoOutcome /\ calls[i].outcome = calls[i].res

\* a call made at age exactly 300 s that ended with the collaborator's error
C3_Witness ==
    \E i \in DOMAIN calls :
        /\ calls[i].age = 300
        /\ calls[i].seen.address_ = PlaceholderAddr
        /\ calls[i].stage = "done"
        /\ calls[i].outcome = Err(TimeoutMsg)

----------------------------------------------------------------------------
(* C4: a resolution all of whose hops were answered with a NextResolver
   record ends rejected with "depth limit exceeded" after exactly MAX_HOPS
   (4) hops. *)
C4_DepthBound ==
    \A i \in DOMAIN calls :
        ( /\ calls[i].stage = "done"
          /\ calls[i].replies # <<>>
          /\ \A k \in 1..Len(calls[i].replies) :
                HasRecord(calls[i].replies[k], "NextResolver") )
        => /\ calls[i].res = Err(DepthLimitMsg)
           /\ Len(calls[i].replies) = MAX_DNS_HOPS

----------------------------------------------------------------------------
\* saves belong to succeeded resolutions; the step in which a resolution
\* fails, and the steps that change the cache
C5_SavesState ==
    \A i \in DOMAIN calls :
        (calls[i].saved \/ SaveQueued(mailbox, i)) => calls[i].res.kind = "ok"

C5_FailStep ==
    /\ \A i \in DOMAIN calls' :
          ( /\ calls'[i].res.kind = "err"
            /\ (i \in DOMAIN calls => calls[i].res.kind = "none") )
          => /\ cache' = cache
             /\ ~SaveQueued(mailbox', i)
             /\ ~calls'[i].saved
    /\ \A h \in Hosts :
          cache'[h] # cache[h] =>
              \E i \in DOMAIN calls :
                  /\ calls'[i].full_host = h
                  /\ calls'[i].res.kind = "ok"
                  /\ ~calls[i].saved /\ calls'[i].saved

(* C5: a resolution that fails writes no cache entry: the step in which it
   fails leaves the cache unchanged and queues no save_to_cache, every queued
   or executed save_to_cache belongs to a resolution that succeeded, and the
   cache changes only in a step that runs such a save_to_cache. *)
C5_FailedNeverWrites == [](C5_SavesState) /\ [][C5_FailStep]_vars

\* failed resolutions of every sort next to an empty cache entry
C5_Witness ==
    /\ Len(calls) = 2
    /\ calls[1].res = Err(NotImplementedMsg)
    /\ calls[2].res = Err(NoEntriesMsg)
    /\ \A h \in Hosts : ~cache[h].present

----------------------------------------------------------------------------
(* Error kinds of the specification, as the error texts the resolver and the
   collaborator produce.  No path of the resolver raises MalformedAddress. *)

CollaboratorErrors ==
    { lr.error : lr \in { x \in LoadResults : x.is_error } }
    \cup { R.error : R \in { x \in RunResults : x.is_error } }

DepthExceeded == {DepthLimitMsg}
NoRecordsFound == {NoEntriesMsg}
MalformedAddress == {}
UnsupportedRecord == {NotImplementedMsg}
RpcFailure == CollaboratorErrors

FiveKinds ==
    DepthExceeded \cup NoRecordsFound \cup MalformedAddress
    \cup UnsupportedRecord \cup RpcFailure

\* errors the resolver raises for a failed or malformed dnsresolve result
ResultErrors ==
    {MethodFailedMsg, InvalidResultMsg, InvalidBitsMsg, CannotParseMsg, NotMod8Msg}

IsAddress(v) == v # <<>> /\ Last(v) \in {".adnl", ".bag"}

Settled(errors) ==
    \A i \in DOMAIN calls :
        /\ calls[i].outcome.kind = "ok" => IsAddress(calls[i].outcome.val)
        /\ calls[i].outcome.kind = "err" => calls[i].outcome.val \in errors
        /\ calls[i].res.kind = "ok" => IsAddress(calls[i].res.val)
        /\ calls[i].res.kind = "err" => calls[i].res.val \in errors

(* C6, as stated: every resolve(h) is fulfilled with a string ending in
   ".adnl" or ".bag" or rejected with one of the five error kinds
   DepthExceeded, NoRecordsFound, MalformedAddress, UnsupportedRecord,
   RpcFailure. *)
C6_FiveKindsOnly == Settled(FiveKinds)

(* C6, amended: every resolve(h) is fulfilled with a string ending in ".adnl"
   or ".bag" or rejected with one of the five error kinds or with one of the
   five errors raised for a failed or malformed dnsresolve result (non-zero
   exit code, short stack, bits entry of the wrong type, unparsable bits,
   bits not a multiple of 8). *)
C6_OutcomesClosed == Settled(FiveKinds \cup ResultErrors)

\* one call fulfilled with an address, one rejected for a short result stack
C6_Witness ==
    \E i, j \in DOMAIN calls :
        /\ calls[i].outcome = Ok(PlaceholderAddr)
        /\ calls[j].outcome = Err(InvalidResultMsg)

----------------------------------------------------------------------------
(* C7: a resolution of "site.ton" from an empty cache whose hop 0 returned
   NextResolver{R1, "ton"} succeeds only after a second hop, and when that
   hop returned an AdnlAddress record the result ends in ".adnl" and is the
   one entry of the cache, under the key "site.ton". *)
C7_SiteTonTwoHops ==
    \A i \in DOMAIN calls :
        ( /\ calls[i].full_host = SiteTon
          /\ Miss(calls[i])
          /\ calls[i].replies # <<>>
          /\ HasRecord(calls[i].replies[1], "NextResolver")
          /\ calls[i].res.kind = "ok" )
        => /\ Len(calls[i].replies) = 2
           /\ HasRecord(calls[i].replies[2], "AdnlAddress") =>
                 /\ Last(calls[i].res.val) = ".adnl"
                 /\ calls[i].saved =>
                       cache[SiteTon].address_ = calls[i].res.val

----------------------------------------------------------------------------
(* lower-case hexadecimal text of a byte string, one token per digit *)

HexDigit(n) ==
    <<"0", "1", "2", "3", "4", "5", "6", "7",
      "8", "9", "a", "b", "c", "d", "e", "f">>[n + 1]

RECURSIVE LowerHex(_)
LowerHex(bytes) ==
    IF bytes = <<>> THEN <<>>
    ELSE <<HexDigit(Head(bytes) \div 16), HexDigit(Head(bytes) % 16)>>
         \o LowerHex(Tail(bytes))

(* C8: a resolution of "bag.ton" whose hop 0 returned StorageAddress{Y}
   is fulfilled with "<lowercase-hex(Y)>.bag". *)
C8_BagTonHex ==
    \A i \in DOMAIN calls :
        ( /\ calls[i].full_host = BagTon
          /\ Miss(calls[i])
          /\ calls[i].stage = "done"
          /\ Len(calls[i].replies) = 1
          /\ HasRecord(calls[i].replies[1], "StorageAddress") )
        => calls[i].outcome =
              Ok(Append(LowerHex(calls[i].replies[1].stack_[2].record.raw_id), ".bag"))

----------------------------------------------------------------------------
\* a call whose last answer held zero records, and the step that received it
C9_ZeroState ==
    \A i \in DOMAIN calls :
        (calls[i].replies # <<>> /\ ZeroRecords(Last(calls[i].replies))) =>
            /\ calls[i].stage = "done"
            /\ calls[i].res = Err(NoEntriesMsg)
            /\ calls[i].outcome =
                  IF Stale(calls[i]) THEN Ok(calls[i].seen.address_)
                  ELSE Err(NoEntriesMsg)
            /\ ~calls[i].saved
            /\ ~SaveQueued(mailbox, i)

C9_ZeroStep ==
    \A i \in DOMAIN calls :
        ( /\ Len(calls'[i].replies) > Len(calls[i].replies)
          /\ ZeroRecords(Last(calls'[i].replies)) )
        => cache' = cache

(* C9: a hop that is answered successfully with zero records ends the
   resolution with "no DNS entries found", which rejects the promise of
   resolve(h) (unless the call was already answered from a stale entry), and
   neither queues nor runs a save_to_cache: the cache is unchanged by the
   step. *)
C9_ZeroRecordsRejected == [](C9_ZeroState) /\ [][C9_ZeroStep]_vars

\* a cold resolution of a host answered with zero records: rejected, no entry
C9_Witness ==
    \E i \in DOMAIN calls :
        /\ Miss(calls[i])
        /\ calls[i].replies # <<>>
        /\ ZeroRecords(Last(calls[i].replies))
        /\ calls[i].outcome = Err(NoEntriesMsg)
        /\ ~cache[calls[i].full_host].present

----------------------------------------------------------------------------
(* The segments of a string: its maximal runs of bytes other than sep, in
   order of position *)

RunsOf(s, sep) ==
    { r \in (1..Len(s)) \X (1..Len(s)) :
        /\ r[1] <= r[2]
        /\ \A k \in r[1]..r[2] : s[k] # sep
        /\ (r[1] = 1 \/ s[r[1] - 1] = sep)
        /\ (r[2] = Len(s) \/ s[r[2] + 1] = sep) }

Segments(s, sep) ==
    LET R == RunsOf(s, sep)
        nth(k) == CHOOSE r \in R : Cardinality({q \in R : q[1] < r[1]}) = k - 1
    IN  [k \in 1..Cardinality(R) |-> SubSeq(s, nth(k)[1], nth(k)[2])]

Zeros(s) == Cardinality({k \in 1..Len(s) : s[k] = 0})

(* C10: prepare_domain_name(name) consists of the non-empty '.'-separated
   segments of name in reversed order, one zero byte between consecutive
   segments and one trailing zero byte; "a.b.c" gives c,0,b,0,a,0 and a name
   without a non-empty segment gives the single byte 0. *)
C10_PrepareChain ==
    codec_pc = "done" =>
        LET segs == Segments(name, Dot)
            labels == Segments(chain_out, 0)
            n == Len(segs)
        IN  /\ Len(labels) = n
            /\ \A k \in 1..n : labels[k] = segs[n + 1 - k]
            /\ Last(chain_out) = 0
            /\ Zeros(chain_out) = IF n = 0 THEN 1 ELSE n
            /\ \A k \in 1..(Len(chain_out) - 1) :
                  ~(chain_out[k] = 0 /\ chain_out[k + 1] = 0)
            /\ n = 0 => chain_out = <<0>>
            /\ name = <<97, 46, 98, 46, 99>> => chain_out = <<99, 0, 98, 0, 97, 0>>

\* "a.b.c" has been encoded
C10_Witness ==
    /\ codec_pc = "done"
    /\ name = <<97, 46, 98, 46, 99>>
    /\ chain_out = <<99, 0, 98, 0, 97, 0>>

----------------------------------------------------------------------------
\* the last answer a call received to smc_load / smc_runGetMethod was an error
LoadFailed(c) == c.loads # <<>> /\ Last(c.loads).is_error
RunFailed(c) == c.replies # <<>> /\ Last(c.replies).is_error

\* smc_load error texts that say the account is absent
AbsentAccountErrors ==
    { <<"contract", "is", "not", "initialized">>, <<"account", "not", "found">> }

\* what the caller holds once the resolution of call c has ended with r
CallerSees(c, r) == IF Stale(c) THEN Ok(c.seen.address_) ELSE r

(* C11, as stated: when a request of a hop fails, the resolution is rejected
   with the collaborator's own error, unchanged, and no further request is
   sent for it. *)
C11_VerbatimNoRetry ==
    \A i \in DOMAIN calls :
        /\ LoadFailed(calls[i]) =>
              /\ calls[i].res = Err(Last(calls[i].loads).error)
              /\ calls[i].stage = "done" /\ calls[i].rpcs = 1
        /\ RunFailed(calls[i]) =>
              /\ calls[i].res = Err(Last(calls[i].replies).error)
              /\ calls[i].stage = "done" /\ calls[i].rpcs = 2

(* C11, amended: when a request of a hop fails, the resolution is rejected
   with the collaborator's own error, unchanged, except that an smc_load
   error saying "not initialized" or "account not found" is replaced by
   "no DNS entries found"; the caller receives that rejection unless it was
   already answered from a stale entry, and no further request is sent for
   the resolution. *)
C11_RpcErrorSurfaced ==
    \A i \in DOMAIN calls :
        /\ LoadFailed(calls[i]) =>
              LET e == Last(calls[i].loads).error
                  r == IF e \in AbsentAccountErrors THEN Err(NoEntriesMsg) ELSE Err(e)
              IN  /\ calls[i].res = r
                  /\ calls[i].outcome = CallerSees(calls[i], r)
                  /\ calls[i].stage = "done" /\ calls[i].rpcs = 1
                  /\ calls[i].replies = <<>>
        /\ RunFailed(calls[i]) =>
              LET r == Err(Last(calls[i].replies).error)
              IN  /\ calls[i].res = r
                  /\ calls[i].outcome = CallerSees(calls[i], r)
                  /\ calls[i].stage = "done" /\ calls[i].rpcs = 2

\* one call rejected with the collaborator's smc_load error, one with its
\* smc_runGetMethod error
C11_Witness ==
    /\ Len(calls) = 2
    /\ LoadFailed(calls[1]) /\ calls[1].outcome = Err(TimeoutMsg)
    /\ calls[1].rpcs = 1
    /\ RunFailed(calls[2]) /\ calls[2].outcome = Err(TimeoutMsg)
    /\ calls[2].rpcs = 2

----------------------------------------------------------------------------
\* the sync loop in every state: after an error a retry is armed, queued or
\* already sent, never given up
C12_SyncState ==
    /\ liveness.state \in {"requested", "waiting", "queued", "synced"}
    /\ liveness.state = "synced" <=>
          (liveness.last = "ok" /\ liveness.state # "requested")
    /\ liveness.state \in {"waiting", "queued"} => liveness.last = "error"
    /\ liveness.state = "waiting" => liveness.fire_at = liveness.failed_at + 5

\* a new sync request is sent only as the retry of a failed one, one at a
\* time and not before 5 s have passed; the loop never touches a call, the
\* cache or a promise
C12_SyncStep ==
    /\ liveness'.syncs # liveness.syncs =>
          /\ liveness'.syncs = liveness.syncs + 1
          /\ liveness.last = "error"
          /\ now >= liveness.failed_at + 5
          /\ liveness'.state = "requested"
    /\ liveness' # liveness => (calls' = calls /\ cache' = cache)
    /\ calls' # calls => liveness' = liveness

(* C12: the sync loop started by start_up goes on for as long as checks
   fail: every failed check arms a retry 5 s later, which is then sent,
   whatever the number of earlier retries; no step of the loop changes a
   resolve call or its promise. *)
C12_SyncRetriesForever ==
    /\ [](C12_SyncState)
    /\ [][C12_SyncStep]_vars
    /\ (liveness.state = "waiting") ~> (liveness.state = "requested")

\* the third sync request, sent after two failures, while a call is pending
C12_Witness ==
    /\ liveness.syncs = 3
    /\ liveness.state = "requested"
    /\ now = 10
    /\ Len(calls) = 1 /\ calls[1].outcome = NoOutcome

----------------------------------------------------------------------------
\* call i ends its resolution with an address in this step
Succeeds(i) == calls[i].res.kind # "ok" /\ calls'[i].res.kind = "ok"

(* C13: in the step in which a resolution ends with address a and fulfils the
   promise of resolve(h), the cache holds h -> a, written at that moment, so
   that a resolve(h) that follows at once finds a fresh entry. *)
C13_WriteBeforeAnswer ==
    [][\A i \in DOMAIN calls :
          Succeeds(i) =>
              cache'[calls[i].full_host] =
                  [present |-> TRUE, address_ |-> calls'[i].res.val,
                   created_at_ |-> now']]_vars

----------------------------------------------------------------------------
\* the resolution of call c ended on a terminal record of its answer
TerminalRecord(c) ==
    /\ c.replies # <<>>
    /\ \/ HasRecord(Last(c.replies), "AdnlAddress")
       \/ HasRecord(Last(c.replies), "StorageAddress")

\* call i wrote, or has sent to be written, the cache entry of its host
Wrote(i) == calls[i].saved \/ SaveQueued(mailbox, i)

(* C14: every cache entry has an address ending in '.adnl' or '.bag' and was
   written by a resolution for its key that ended with an address on a
   terminal record; a resolution whose hop answered with NextResolver, or
   that failed, writes nothing. *)
C14_OnlyTerminalCached ==
    /\ \A h \in Hosts :
          cache[h].present =>
              /\ Last(cache[h].address_) \in {".adnl", ".bag"}
              /\ \E i \in DOMAIN calls : calls[i].full_host = h /\ calls[i].saved
    /\ \A i \in DOMAIN calls :
          Wrote(i) => (calls[i].res.kind = "ok" /\ TerminalRecord(calls[i]))

----------------------------------------------------------------------------
\* hops started by call c, and the requests of each kind it has sent
Hops(c) == IF c.stage = "idle" THEN 0 ELSE c.depth + 1
LoadsSent(c) == Len(c.loads) + (IF c.stage = "load" THEN 1 ELSE 0)
RunsSent(c) == Len(c.replies) + (IF c.stage = "run" THEN 1 ELSE 0)

\* as first stated: one request per hop
C15_OneRpcPerHop ==
    \A i \in DOMAIN calls : calls[i].rpcs = Hops(calls[i])

(* C15: every hop below the depth limit sends one smc_load and, only after
   smc_load has succeeded, one smc_runGetMethod, whose answer is the one
   interpreted: a resolution of k hops sends k requests when smc_load fails
   and 2k when it comes to interpret an answer. *)
C15_LoadThenRun ==
    \A i \in DOMAIN calls :
        LET c == calls[i]
        IN  /\ c.rpcs = LoadsSent(c) + RunsSent(c)
            /\ LoadsSent(c) = Hops(c)
            /\ RunsSent(c) <= Hops(c)
            /\ (RunsSent(c) > 0 \/ c.stage = "fwd") =>
                  (c.loads # <<>> /\ ~Last(c.loads).is_error)
            /\ LoadFailed(c) => c.rpcs = Hops(c)
            /\ c.replies # <<>> => c.rpcs = 2 * Hops(c)

\* one call stopped at smc_load, one went on to smc_runGetMethod
C15_Witness ==
    /\ Len(calls) = 2
    /\ LoadFailed(calls[1]) /\ calls[1].stage = "done" /\ calls[1].rpcs = 1
    /\ calls[2].replies # <<>> /\ calls[2].stage = "done" /\ calls[2].rpcs = 2

----------------------------------------------------------------------------
\* the save_to_cache of call i runs in this step
Writes(i) == ~calls[i].saved /\ calls'[i].saved

\* every call that misses the cache runs a resolution of its own, whatever
\* other calls for the host are under way, and every success sends its write
C16_OwnLoop ==
    \A i \in DOMAIN calls :
        /\ Miss(calls[i]) =>
              /\ calls[i].stage # "idle"
              /\ calls[i].rpcs >= 1
              /\ calls[i].stage = "done" => LoadsSent(calls[i]) = 1
        /\ calls[i].res.kind = "ok" => Wrote(i)

\* a write replaces the entry of its host, whoever wrote it before, and
\* nothing else changes the cache
C16_WriteStep ==
    /\ \A i \in DOMAIN calls :
          Writes(i) =>
              cache' = [cache EXCEPT ![calls[i].full_host] =
                           [present |-> TRUE, address_ |-> calls'[i].res.val,
                            created_at_ |-> now]]
    /\ cache' # cache => \E i \in DOMAIN calls : Writes(i)

(* C16: resolutions are not de-duplicated.  Two resolve(h) that both miss
   the cache each run their own hop loop and, when both succeed, each writes
   the entry of h; every write replaces the entry, so the one left is the
   one written last, in every interleaving of the answers. *)
C16_LastWriterWins == [](C16_OwnLoop) /\ [][C16_WriteStep]_vars

\* two misses for one host, both written, the second write 20 s after the
\* first: the entry is the second one
C16_Witness ==
    /\ Len(calls) = 2
    /\ calls[1].full_host = calls[2].full_host
    /\ Miss(calls[1]) /\ Miss(calls[2])
    /\ calls[1].saved /\ calls[2].saved
    /\ calls[1].rpcs = 2 /\ calls[2].rpcs = 2
    /\ now = 20
    /\ cache[calls[1].full_host].created_at_ = 20

----------------------------------------------------------------------------
\* the resolution of call i ends with an error in this step
FailsNow(i) == calls[i].res.kind = "none" /\ calls'[i].res.kind = "err"

\* a stale-window call whose refresh has failed still has the cached answer
C17_StaleFailState ==
    \A i \in DOMAIN calls :
        (Stale(calls[i]) /\ calls[i].res.kind = "err") =>
            /\ calls[i].outcome = Ok(calls[i].seen.address_)
            /\ ~Wrote(i)

\* the failing step of a refresh changes neither the caller's outcome nor
\* the cache
C17_StaleFailStep ==
    \A i \in DOMAIN calls :
        (Stale(calls[i]) /\ FailsNow(i)) =>
            /\ calls'[i].outcome = calls[i].outcome
            /\ calls[i].outcome = Ok(calls[i].seen.address_)
            /\ cache' = cache

(* C17: when the refresh started by a resolve(h) in the stale window
   (270 s <= age < 300 s) fails, the failure goes nowhere: the caller keeps
   the cached address it was given, and the entry of h keeps its address and
   created_at. *)
C17_RefreshFailureDiscarded ==
    [](C17_StaleFailState) /\ [][C17_StaleFailStep]_vars

\* a refresh has failed on a collaborator error; entry and answer are as before
C17_Witness ==
    \E i \in DOMAIN calls :
        /\ Stale(calls[i])
        /\ calls[i].res = Err(TimeoutMsg)
        /\ calls[i].outcome = Ok(PlaceholderAddr)
        /\ cache[calls[i].full_host] = calls[i].seen

----------------------------------------------------------------------------
\* call i has been made and its promise is settled
Settles(i) == i <= Len(calls) /\ calls[i].promise = "empty"
Ended(i) == i <= Len(calls) /\ calls[i].stage = "done"

\* a pending promise belongs to a resolution that is under way, and a
\* resolution that has ended has settled it
C18_NoOrphan ==
    \A i \in DOMAIN calls :
        /\ calls[i].promise = "armed" => InFlight(calls[i])
        /\ calls[i].stage = "fwd" <=>
              (\E k \in 1..Len(mailbox) :
                  mailbox[k].kind = "forward_runGetMethod" /\ mailbox[k].call = i)

(* C18: if the tonlib client answers every request, every resolve call
   settles its promise: a resolution that has started runs to its end, with
   an address or an error, and no promise stays pending without a request or
   a closure of its resolution outstanding. *)
C18_EverySettles ==
    /\ [](C18_NoOrphan)
    /\ \A i \in 1..MaxCalls :
          /\ (i <= Len(calls)) ~> Settles(i)
          /\ (i <= Len(calls) /\ InFlight(calls[i])) ~> Ended(i)

\* two resolutions that went through both requests have ended, one with an
\* address and one with an error
C18_Witness ==
    /\ Len(calls) = 2
    /\ Ended(1) /\ calls[1].rpcs = 2 /\ calls[1].outcome.kind = "ok"
    /\ Ended(2) /\ calls[2].rpcs = 2 /\ calls[2].outcome.kind = "err"
    /\ mailbox = <<>>

----------------------------------------------------------------------------
\* what the caller was given is what emptied the promise
C19_DeliveredState ==
    \A i \in DOMAIN calls :
        /\ calls[i].outcome # NoOutcome <=> calls[i].promise = "empty"
        /\ (Stale(calls[i]) \/ Fresh(calls[i])) =>
              calls[i].outcome = Ok(calls[i].seen.address_)

\* an outcome, once given, is never replaced and the promise stays empty
C19_DeliveredStep ==
    \A i \in DOMAIN calls :
        calls[i].outcome # NoOutcome =>
            /\ calls'[i].outcome = calls[i].outcome
            /\ calls'[i].promise = "empty"

(* C19: the caller of a resolve call is given an outcome at most once.  In
   the stale window the promise is fulfilled with the cached address and
   then handed to resolve_recursive; the set_result or set_error of that
   resolution gives the caller nothing further. *)
C19_OutcomeOnce ==
    [](C19_DeliveredState) /\ [][C19_DeliveredStep]_vars

\* a refresh that succeeded and wrote the cache after the caller was answered
C19_Witness ==
    \E i \in DOMAIN calls :
        /\ Stale(calls[i])
        /\ calls[i].res = Ok(PlaceholderAddr)
        /\ calls[i].saved
        /\ calls[i].outcome = Ok(calls[i].seen.address_)
        /\ cache[calls[i].full_host].created_at_ = now

----------------------------------------------------------------------------
\* the answer interpreted by call c carried a data cell
GotCell(c) ==
    /\ c.replies # <<>>
    /\ WellFormed(Last(c.replies))
    /\ Last(c.replies).stack_[2].type = "cell"

TonHosts == { h \in Hosts : Find(h, DotTon) }

(* C20: a resolution that receives a data cell succeeds exactly when the
   host contains ".ton", and then with 'storage_bag_placeholder.bag' whatever
   the record in the cell; for any other host it is rejected.  So every
   address given to a caller or stored in the cache is that string, and only
   hosts containing ".ton" have a cache entry. *)
C20_PlaceholderOnly ==
    /\ \A i \in DOMAIN calls :
          LET c == calls[i]
          IN  /\ GotCell(c) =>
                    c.res = IF c.full_host \in TonHosts
                            THEN Ok(PlaceholderAddr)
                            ELSE Err(NotImplementedMsg)
              /\ c.res.kind = "ok" => (GotCell(c) /\ c.res.val = PlaceholderAddr)
              /\ c.outcome.kind = "ok" => c.outcome.val = PlaceholderAddr
    /\ \A h \in Hosts :
          cache[h].present =>
              (h \in TonHosts /\ cache[h].address_ = PlaceholderAddr)
    /\ \A k \in 1..Len(mailbox) :
          mailbox[k].kind = "save_to_cache" =>
              (mailbox[k].host \in TonHosts /\ mailbox[k].address = PlaceholderAddr)

\* the same cell, with an ADNL record, is a success on site.ton and a
\* rejection on a host without ".ton"
C20_Witness ==
    /\ Len(calls) = 2
    /\ calls[1].full_host = SiteTon /\ calls[2].full_host = ExampleCom
    /\ calls[1].replies # <<>> /\ calls[2].replies # <<>>
    /\ HasRecord(Last(calls[1].replies), "AdnlAddress")
    /\ Last(calls[2].replies) = Last(calls[1].replies)
    /\ calls[1].outcome = Ok(PlaceholderAddr)
    /\ calls[2].outcome = Err(NotImplementedMsg)
    /\ cache[SiteTon].present /\ ~cache[ExampleCom].present

====
